---------------------------- MODULE Spec2Model ----------------------------
(***************************************************************************)
(* Financial-analysis backend: the financial_data table with its unique    *)
(* (company_id, fiscal_year) constraint and the handlers of                *)
(* routers/financial.py that write it (create_company,                     *)
(* create_financial_data, update_financial_data, delete_financial_data)    *)
(* and read it (get_financial_data_by_year,                                *)
(* get_financial_data_by_company, get_dashboard_data with                  *)
(* calculate_financial_metrics).                                           *)
(*                                                                         *)
(* Three specifications share the handlers' code:                          *)
(*   Spec      one request at a time, each handler one atomic action;      *)
(*   SpecRace  two database sessions whose handlers are split at their     *)
(*             database round trips (lookup, then commit), interleaved;    *)
(*   SpecDash  the dashboard over tables whose rows have stored ratios and *)
(*             the legacy columns filled.                                  *)
(*                                                                         *)
(* Representation.  A nullable column or Optional field is a sequence:     *)
(* << >> is None/NULL and <<v>> is the value v.  Money columns are         *)
(* integers.  Ratios (margins, return_on_equity, ...) are exact fractions  *)
(* <<n, d>> in lowest terms with d > 0.  A year-over-year percentage,      *)
(* which the code rounds to 2 decimals, is an integer number of            *)
(* hundredths of a percent (2500 is 25.0).  fiscal_year is a string, kept  *)
(* as the sequence of its characters.                                      *)
(***************************************************************************)
EXTENDS Integers, Sequences, FiniteSets, TLC

VARIABLES
    companies,  \* rows of table companies: records [id, name]
    store,      \* rows of table financial_data (committed state)
    nextId,     \* next value of the financial_data.id sequence
    last,       \* the most recent request that committed (2xx)
    sess        \* SpecRace: each database session's request in flight

vars == <<companies, store, nextId, last, sess>>

---------------------------------------------------------------------------
(* Bounds of the model *)

\* Rows ever inserted into financial_data (the id sequence stops there).
MaxRows == 2

---------------------------------------------------------------------------
(* Values *)

Null == << >>
Some(v) == <<v>>
IsNull(o) == o = << >>
Val(o) == o[1]

Abs(x) == IF x < 0 THEN -x ELSE x

RECURSIVE Gcd(_, _)
Gcd(a, b) == IF b = 0 THEN a ELSE Gcd(b, a % b)

\* The quotient n / d of a float division, as a fraction in lowest terms.
Frac(n, d) ==
    LET g == Gcd(Abs(n), Abs(d))
        s == IF d < 0 THEN -1 ELSE 1
    IN  <<(s * n) \div g, (s * d) \div g>>

\* round(n / d, 0) for d > 0, ties to the even neighbour as Python's round.
RoundHalfEven(n, d) ==
    LET q == n \div d
        r == n % d
    IN  IF 2 * r < d THEN q
        ELSE IF 2 * r > d THEN q + 1
        ELSE IF q % 2 = 0 THEN q ELSE q + 1

---------------------------------------------------------------------------
(* fiscal_year strings: int(v) and str(n) *)

Digits == <<"0", "1", "2", "3", "4", "5", "6", "7", "8", "9">>

IsDigit(c) == \E i \in 1..10 : Digits[i] = c
DigitVal(c) == (CHOOSE i \in 1..10 : Digits[i] = c) - 1

RECURSIVE DigitsValue(_)
DigitsValue(s) ==
    IF s = << >> THEN 0
    ELSE 10 * DigitsValue(SubSeq(s, 1, Len(s) - 1)) + DigitVal(s[Len(s)])

\* int(v): raises ValueError (ok = FALSE) unless v is a nonempty run of digits.
ParseInt(s) ==
    IF s # << >> /\ \A i \in 1..Len(s) : IsDigit(s[i])
    THEN [ok |-> TRUE, val |-> DigitsValue(s)]
    ELSE [ok |-> FALSE, val |-> 0]

RECURSIVE NatToStr(_)
NatToStr(n) ==
    IF n < 10 THEN <<Digits[n + 1]>>
    ELSE Append(NatToStr(n \div 10), Digits[(n % 10) + 1])

\* str(n)
IntToStr(n) == IF n < 0 THEN <<"-">> \o NatToStr(-n) ELSE NatToStr(n)

MinYear == 1900
MaxYear == 2100

\* FinancialDataBase.validate_fiscal_year: TRUE when v is accepted.
validate_fiscal_year(v) ==
    LET p == ParseInt(v) IN p.ok /\ ~(p.val < MinYear \/ p.val > MaxYear)

\* The year before last.
PreviousYear_TwoBack(v) == IntToStr(ParseInt(v).val - 2)

\* previous_year = str(int(fiscal_year) - 1)
PreviousYear(v) == IntToStr(ParseInt(v).val - 1)

---------------------------------------------------------------------------
(* Request inputs *)

Y1899 == <<"1", "8", "9", "9">>
Y1900 == <<"1", "9", "0", "0">>
Y1901 == <<"1", "9", "0", "1">>
Y1902 == <<"1", "9", "0", "2">>
Y01901 == <<"0", "1", "9", "0", "1">>
Y2101 == <<"2", "1", "0", "1">>
Y19x1 == <<"1", "9", "x", "1">>

\* fiscal_year strings a request may carry, in its body or in its path.
\* "01901" is accepted (int("01901") = 1901) and is a key of its own.
ValidYears == {Y1900, Y1901, Y01901}
InvalidYears == {Y1899, Y2101, Y19x1}

\* Company names a create_company request may carry.
Names == {"Acme", "Bolt"}

\* The fields of FinancialDataBase other than fiscal_year.  The pass-through
\* fields prepared_by, notes, price_high, price_low,
\* return_on_invested_capital, current_ratio, dividends_per_share and
\* dividend_rate are copied exactly as eps (required) and earning_power
\* (optional) are, and are left out.  revenue_yoy_change is a key of the
\* JSON body that is no field of FinancialDataBase (its declaration is
\* commented out): the handlers never see it.
BodyA ==
    [total_revenue |-> 1, gross_profit |-> 1, operating_profit |-> 0,
     net_profit |-> -1, number_of_shares |-> 1, eps |-> 1,
     free_cash_flow |-> 0, earning_power |-> Null,
     gross_profit_margin |-> Null, operating_profit_margin |-> Null,
     net_profit_margin |-> Null,
     return_on_equity |-> Null, return_on_assets |-> Null,
     book_value |-> Null, book_value_per_share |-> Null,
     revenue_yoy_change |-> Null]

\* Differs from BodyA in total_revenue but not in gross_profit; carries
\* margins of its own, which are not the quotients.
BodyB ==
    [BodyA EXCEPT !.total_revenue = 3, !.operating_profit = 1,
                  !.net_profit = 1, !.number_of_shares = 2, !.eps = 2,
                  !.free_cash_flow = 3, !.earning_power = Some(1),
                  !.gross_profit_margin = Some(<<9, 10>>),
                  !.net_profit_margin = Some(<<1, 4>>),
                  !.return_on_equity = Some(<<1, 2>>),
                  !.book_value = Some(2),
                  !.revenue_yoy_change = Some(4200)]

\* Differs from BodyA in gross_profit but not in total_revenue.
BodyC ==
    [BodyA EXCEPT !.gross_profit = 2, !.book_value = Some(3)]

ValidBodies == {BodyA, BodyB, BodyC}

\* total_revenue = 0, number_of_shares = 0, total_revenue < 0
InvalidBodies ==
    { [BodyA EXCEPT !.total_revenue = 0],
      [BodyA EXCEPT !.number_of_shares = 0],
      [BodyB EXCEPT !.total_revenue = -1] }

WithYear(b, y) ==
    [f \in DOMAIN b \cup {"fiscal_year"} |->
        IF f = "fiscal_year" THEN y ELSE b[f]]

\* The POST requests <<company_id, body>> of Spec: two consecutive years of
\* company 1 with two bodies each, a third year and a second spelling of
\* 1901 of company 1, one key of company 2, and bodies that fail validation.
SubmitRequests ==
    { <<1, WithYear(b, y)>> : b \in {BodyA, BodyB}, y \in {Y1900, Y1901} }
    \cup { <<1, WithYear(BodyA, Y01901)>>, <<1, WithYear(BodyB, Y1902)>>,
           <<2, WithYear(BodyB, Y1901)>> }
    \cup { <<1, WithYear(BodyA, y)>> : y \in InvalidYears }
    \cup { <<1, WithYear(b, Y1901)>> : b \in InvalidBodies }

\* The keys <<company_id, fiscal_year>> of the paths of PUT, DELETE and GET
\* requests of Spec.
Keys ==
    { <<1, y>> : y \in ValidYears \cup {Y19x1} } \cup { <<2, Y1901>> }

\* The bodies of PUT requests of Spec; the fiscal_year of a body need not be
\* the one of the path.
UpdateInputs ==
    { WithYear(BodyA, Y1901), WithYear(BodyB, Y1900), WithYear(BodyB, Y2101),
      WithYear([BodyA EXCEPT !.total_revenue = 0], Y1900) }

BodyFields ==
    {"fiscal_year", "total_revenue", "gross_profit", "operating_profit",
     "net_profit", "number_of_shares", "eps", "free_cash_flow",
     "earning_power", "gross_profit_margin", "operating_profit_margin",
     "net_profit_margin", "return_on_equity", "return_on_assets",
     "book_value", "book_value_per_share"}

\* Field(..., gt=0) accepts every value.
Validate_NoPositiveCheck(fd) == validate_fiscal_year(fd.fiscal_year)

\* Pydantic validation of a FinancialDataCreate body: the fiscal_year
\* validator and the gt=0 constraints.  TRUE when the body is accepted;
\* FastAPI answers 422 otherwise, before the handler runs.
Validate(fd) ==
    /\ validate_fiscal_year(fd.fiscal_year)
    /\ fd.total_revenue > 0
    /\ fd.number_of_shares > 0

---------------------------------------------------------------------------
(* Table financial_data *)

\* db.query(FinancialData).filter(company_id == c, fiscal_year == y).first():
\* Null or Some(row).  When several rows match, any of them may come first.
Rows(st, c, y) == { r \in st : r.company_id = c /\ r.fiscal_year = y }

Lookup(st, c, y) ==
    LET rs == Rows(st, c, y) IN
    IF rs = {} THEN Null ELSE Some(CHOOSE r \in rs : TRUE)

\* db.query(Company).filter(Company.id == company_id).first() is not None
CompanyExists_Always(cs, c) == TRUE

\* db.query(Company).filter(Company.id == company_id).first() is not None
CompanyExists(cs, c) == \E k \in cs : k.id = c

---------------------------------------------------------------------------
(* Derive-on-write: margins and year-over-year changes *)

calc_percent_change_NoAbs(current, previous) ==
    IF previous # 0
    THEN Some(RoundHalfEven((current - previous) * 10000 *
                            (IF previous < 0 THEN -1 ELSE 1), Abs(previous)))
    ELSE Null

\* calc_percent_change(current, previous), in hundredths of a percent.
\* previous is a number here (its None case is guarded by the callers).
calc_percent_change(current, previous) ==
    IF previous # 0
    THEN Some(RoundHalfEven((current - previous) * 10000, Abs(previous)))
    ELSE Null

\* "Calculate margins": the three quotients when total_revenue > 0.
Margins(fd) ==
    IF fd.total_revenue > 0
    THEN [gross_profit_margin |-> Some(Frac(fd.gross_profit, fd.total_revenue)),
          operating_profit_margin |->
              Some(Frac(fd.operating_profit, fd.total_revenue)),
          net_profit_margin |-> Some(Frac(fd.net_profit, fd.total_revenue))]
    ELSE [gross_profit_margin |-> Null, operating_profit_margin |-> Null,
          net_profit_margin |-> Null]

\* "Calculate YoY changes if previous year data exists": prev is the result
\* of the previous-year query, Null or Some(row).
YoY(fd, prev) ==
    IF IsNull(prev)
    THEN [revenue_yoy_change |-> Null, gross_profit_yoy_change |-> Null,
          operating_profit_yoy_change |-> Null, net_profit_yoy_change |-> Null,
          free_cash_flow_yoy_change |-> Null, book_value_yoy_change |-> Null]
    ELSE LET p == Val(prev) IN
         [revenue_yoy_change |->
              calc_percent_change(fd.total_revenue, p.total_revenue),
          gross_profit_yoy_change |->
              calc_percent_change(fd.gross_profit, p.gross_profit),
          operating_profit_yoy_change |->
              calc_percent_change(fd.operating_profit, p.operating_profit),
          net_profit_yoy_change |->
              calc_percent_change(fd.net_profit, p.net_profit),
          free_cash_flow_yoy_change |->
              calc_percent_change(fd.free_cash_flow, p.free_cash_flow),
          book_value_yoy_change |->
              IF ~IsNull(fd.book_value) /\ ~IsNull(p.book_value)
              THEN calc_percent_change(Val(fd.book_value), Val(p.book_value))
              ELSE Null]

\* The nine calculated columns a write assigns.
Derived(fd, prev) ==
    LET m == Margins(fd)
        y == YoY(fd, prev)
    IN  [f \in DOMAIN m \cup DOMAIN y |-> IF f \in DOMAIN m THEN m[f] ELSE y[f]]

DerivedFields ==
    {"gross_profit_margin", "operating_profit_margin", "net_profit_margin",
     "revenue_yoy_change", "gross_profit_yoy_change",
     "operating_profit_yoy_change", "net_profit_yoy_change",
     "free_cash_flow_yoy_change", "book_value_yoy_change"}

\* Columns of financial_data no handler assigns (the legacy columns
\* total_assets and shareholders_equity; total_liabilities, current_assets
\* and current_liabilities are alike and left out).
LegacyFields == {"total_assets", "shareholders_equity"}

RowFields ==
    {"id", "company_id"} \cup BodyFields \cup DerivedFields \cup LegacyFields

\* Only the keys the body gives a value are assigned (a partial update).
Assign_SkipNull(row, fd, skip, d) ==
    [f \in DOMAIN row |->
        IF f \in DerivedFields THEN d[f]
        ELSE IF f \in BodyFields \ skip
                /\ ~(f \in {"earning_power", "return_on_equity",
                            "return_on_assets", "book_value",
                            "book_value_per_share"} /\ IsNull(fd[f]))
        THEN fd[f]
        ELSE row[f]]

\* setattr(row, key, value) for every key of financial_data.dict() but those
\* in skip, then the assignments of the calculated fields.
Assign(row, fd, skip, d) ==
    [f \in DOMAIN row |->
        IF f \in DerivedFields THEN d[f]
        ELSE IF f \in BodyFields \ skip THEN fd[f]
        ELSE row[f]]

\* FinancialData(company_id=..., fiscal_year=..., ...) of the create branch;
\* the id is the database's to give (0 until the INSERT).
NewRow(c, fd, d) ==
    [f \in RowFields |->
        IF f = "id" THEN 0
        ELSE IF f = "company_id" THEN c
        ELSE IF f \in DerivedFields THEN d[f]
        ELSE IF f \in BodyFields THEN fd[f]
        ELSE Null]

---------------------------------------------------------------------------
(* The unit of work of a session: staged writes, flush, refresh *)

UniqueViolation_Unenforced(st, row) == FALSE

\* UniqueConstraint('company_id', 'fiscal_year'): an INSERT of row is
\* refused when a committed row already has its key.
UniqueViolation(st, row) == Rows(st, row.company_id, row.fiscal_year) # {}

\* The columns the session's UPDATE statement sets: those whose value
\* differs from the value the row was loaded with.
Changed(w) == { f \in DOMAIN w.row : w.row[f] # w.loaded[f] }

\* The UPDATE and DELETE statements select by company, not by id.
Flush_ByCompany(st, nid, w) ==
    IF w.kind = "insert"
    THEN IF UniqueViolation(st, w.row)
         THEN [err |-> "integrity", store |-> st, nextId |-> nid, id |-> 0]
         ELSE [err |-> "ok", store |-> st \cup {[w.row EXCEPT !.id = nid]},
               nextId |-> nid + 1, id |-> nid]
    ELSE LET target == { r \in st : r.company_id = w.loaded.company_id }
             ch == Changed(w)
         IN
         IF w.kind = "delete"
         THEN [err |-> "ok", store |-> st \ target, nextId |-> nid,
               id |-> w.loaded.id]
         ELSE IF ch = {}
         THEN [err |-> "ok", store |-> st, nextId |-> nid, id |-> w.loaded.id]
         ELSE IF target = {}
         THEN [err |-> "stale", store |-> st, nextId |-> nid, id |-> 0]
         ELSE [err |-> "ok",
               store |-> (st \ target) \cup
                   { [f \in DOMAIN r |-> IF f \in ch THEN w.row[f] ELSE r[f]]
                     : r \in target },
               nextId |-> nid, id |-> w.loaded.id]

\* An update whose row is gone writes the row anew (a merge).
Flush_Merge(st, nid, w) ==
    IF w.kind = "insert"
    THEN IF UniqueViolation(st, w.row)
         THEN [err |-> "integrity", store |-> st, nextId |-> nid, id |-> 0]
         ELSE [err |-> "ok", store |-> st \cup {[w.row EXCEPT !.id = nid]},
               nextId |-> nid + 1, id |-> nid]
    ELSE LET target == { r \in st : r.id = w.loaded.id }
             ch == Changed(w)
         IN
         IF w.kind = "delete"
         THEN [err |-> "ok", store |-> st \ target, nextId |-> nid,
               id |-> w.loaded.id]
         ELSE IF target = {}
         THEN [err |-> "ok", store |-> st \cup {w.row}, nextId |-> nid,
               id |-> w.loaded.id]
         ELSE IF ch = {}
         THEN [err |-> "ok", store |-> st, nextId |-> nid, id |-> w.loaded.id]
         ELSE [err |-> "ok",
               store |-> (st \ target) \cup
                   { [f \in DOMAIN r |-> IF f \in ch THEN w.row[f] ELSE r[f]]
                     : r \in target },
               nextId |-> nid, id |-> w.loaded.id]

\* db.commit(): the flush of the staged write w against the committed table
\* st, and its outcome.
\*   insert  INSERT; IntegrityError on a duplicate key, else the row gets
\*           the next id.
\*   update  UPDATE ... SET <changed columns> WHERE id = <loaded id>; no
\*           statement when nothing changed; StaleDataError when the
\*           statement matches no row.
\*   delete  DELETE ... WHERE id = <loaded id>.
Flush(st, nid, w) ==
    IF w.kind = "insert"
    THEN IF UniqueViolation(st, w.row)
         THEN [err |-> "integrity", store |-> st, nextId |-> nid, id |-> 0]
         ELSE [err |-> "ok", store |-> st \cup {[w.row EXCEPT !.id = nid]},
               nextId |-> nid + 1, id |-> nid]
    ELSE LET target == { r \in st : r.id = w.loaded.id }
             ch == Changed(w)
         IN
         IF w.kind = "delete"
         THEN [err |-> "ok", store |-> st \ target, nextId |-> nid,
               id |-> w.loaded.id]
         ELSE IF ch = {}
         THEN [err |-> "ok", store |-> st, nextId |-> nid, id |-> w.loaded.id]
         ELSE IF target = {}
         THEN [err |-> "stale", store |-> st, nextId |-> nid, id |-> 0]
         ELSE [err |-> "ok",
               store |-> (st \ target) \cup
                   { [f \in DOMAIN r |-> IF f \in ch THEN w.row[f] ELSE r[f]]
                     : r \in target },
               nextId |-> nid, id |-> w.loaded.id]

\* db.refresh(row): the row as committed now, Null when it is gone
\* (InvalidRequestError).
Refresh(st, id) ==
    LET rs == { r \in st : r.id = id } IN
    IF rs = {} THEN Null ELSE Some(CHOOSE r \in rs : TRUE)

StageSubmit_AlwaysInsert(c, fd, prev, existing) ==
    LET new == NewRow(c, fd, Derived(fd, prev)) IN
    [kind |-> "insert", loaded |-> new, row |-> new]

\* create_financial_data from "if existing_data:" to db.add(): the write the
\* session holds when it reaches db.commit().
StageSubmit(c, fd, prev, existing) ==
    IF ~IsNull(existing)
    THEN [kind |-> "update", loaded |-> Val(existing),
          row |-> Assign(Val(existing), fd, {}, Derived(fd, prev))]
    ELSE LET new == NewRow(c, fd, Derived(fd, prev)) IN
         [kind |-> "insert", loaded |-> new, row |-> new]

StageUpdate_CopyFiscalYear(fd, prev, existing) ==
    [kind |-> "update", loaded |-> existing,
     row |-> Assign(existing, fd, {}, Derived(fd, prev))]

\* update_financial_data from "Update base fields from input" to db.commit().
StageUpdate(fd, prev, existing) ==
    [kind |-> "update", loaded |-> existing,
     row |-> Assign(existing, fd, {"fiscal_year"}, Derived(fd, prev))]

\* delete_financial_data: db.delete(db_financial_data)
StageDelete(existing) ==
    [kind |-> "delete", loaded |-> existing, row |-> existing]

---------------------------------------------------------------------------
(* The handlers, run from request to response against committed state *)

\* What a handler leaves behind: the table, the id sequence, the HTTP status
\* and the row the response is about (the row returned, or the row deleted).
Outcome(st, nid, status, row) ==
    [store |-> st, nextId |-> nid, status |-> status, row |-> row]

IntegrityStatus_Uncaught(op) == 500

\* The status of a request whose commit raised IntegrityError:
\* create_financial_data catches it (rollback, 400), no other handler does.
IntegrityStatus(op) == IF op = "submit" THEN 400 ELSE 500

\* db.commit(); db.refresh(row); return row -- and what becomes of the
\* errors: nothing catches StaleDataError or a failed refresh (500).
CommitAndRefresh(st, nid, w, op) ==
    LET fl == Flush(st, nid, w) IN
    IF fl.err = "integrity"
    THEN Outcome(st, nid, IntegrityStatus(op), Null)
    ELSE IF fl.err = "stale"
    THEN Outcome(st, nid, 500, Null)
    ELSE LET row == Refresh(fl.store, fl.id) IN
         Outcome(fl.store, fl.nextId, IF IsNull(row) THEN 500 ELSE 200, row)

\* POST /companies/{company_id}/financial-data/
SubmitRun(cs, st, nid, c, fd) ==
    IF ~Validate(fd) THEN Outcome(st, nid, 422, Null)
    ELSE IF ~CompanyExists(cs, c) THEN Outcome(st, nid, 404, Null)
    ELSE LET prev == Lookup(st, c, PreviousYear(fd.fiscal_year))
             existing == Lookup(st, c, fd.fiscal_year)
         IN  CommitAndRefresh(st, nid, StageSubmit(c, fd, prev, existing),
                              "submit")

UpdateRun_Upsert(st, nid, c, y, fd) ==
    IF ~Validate(fd) THEN Outcome(st, nid, 422, Null)
    ELSE LET existing == Lookup(st, c, y)
             prev == Lookup(st, c, PreviousYear(y))
         IN  CommitAndRefresh(st, nid,
                 IF IsNull(existing)
                 THEN StageSubmit(c, [fd EXCEPT !.fiscal_year = y], prev, Null)
                 ELSE StageUpdate(fd, prev, Val(existing)),
                 "update")

\* PUT /companies/{company_id}/financial-data/{fiscal_year}
UpdateRun(st, nid, c, y, fd) ==
    IF ~Validate(fd) THEN Outcome(st, nid, 422, Null)
    ELSE LET existing == Lookup(st, c, y) IN
         IF IsNull(existing) THEN Outcome(st, nid, 404, Null)
         ELSE IF ~ParseInt(y).ok THEN Outcome(st, nid, 500, Null)
         ELSE CommitAndRefresh(st, nid,
                  StageUpdate(fd, Lookup(st, c, PreviousYear(y)), Val(existing)),
                  "update")

DeleteRun_WholeCompany(st, nid, c, y) ==
    LET existing == Lookup(st, c, y) IN
    IF IsNull(existing) THEN Outcome(st, nid, 404, Null)
    ELSE Outcome({ r \in st : r.company_id # c }, nid, 204, existing)

\* DELETE /companies/{company_id}/financial-data/{fiscal_year}
DeleteRun(st, nid, c, y) ==
    LET existing == Lookup(st, c, y) IN
    IF IsNull(existing) THEN Outcome(st, nid, 404, Null)
    ELSE Outcome(Flush(st, nid, StageDelete(Val(existing))).store, nid, 204,
                 existing)

\* GET /companies/{company_id}/financial-data/{fiscal_year}
get_financial_data_by_year(st, c, y) ==
    LET row == Lookup(st, c, y) IN
    [status |-> IF IsNull(row) THEN 404 ELSE 200, row |-> row]

---------------------------------------------------------------------------
(* The dashboard: calculate_financial_metrics and get_dashboard_data *)

\* ord(c) of the characters a fiscal_year of the model is made of.
CharCode(c) ==
    IF IsDigit(c) THEN 48 + DigitVal(c) ELSE IF c = "-" THEN 45 ELSE 120

\* a < b of two Python strings: by code point, a proper prefix first.
RECURSIVE StrLess(_, _)
StrLess(a, b) ==
    IF b = << >> THEN FALSE
    ELSE IF a = << >> THEN TRUE
    ELSE IF CharCode(Head(a)) # CharCode(Head(b))
    THEN CharCode(Head(a)) < CharCode(Head(b))
    ELSE StrLess(Tail(a), Tail(b))

\* One step of the stable sort: x goes behind every element whose key is
\* not greater than its own.
RECURSIVE InsertByYear(_, _)
InsertByYear(x, sq) ==
    IF sq = << >> THEN <<x>>
    ELSE IF StrLess(x.fiscal_year, Head(sq).fiscal_year) THEN <<x>> \o sq
    ELSE <<Head(sq)>> \o InsertByYear(x, Tail(sq))

RECURSIVE InsertByNumber(_, _)
InsertByNumber(x, sq) ==
    IF sq = << >> THEN <<x>>
    ELSE IF ParseInt(x.fiscal_year).val < ParseInt(Head(sq).fiscal_year).val
    THEN <<x>> \o sq
    ELSE <<Head(sq)>> \o InsertByNumber(x, Tail(sq))

RECURSIVE SortedByYear_Numeric(_)
SortedByYear_Numeric(list) ==
    IF list = << >> THEN << >>
    ELSE InsertByNumber(list[Len(list)],
                        SortedByYear_Numeric(SubSeq(list, 1, Len(list) - 1)))

\* sorted(financial_data_list, key=lambda x: str(x.fiscal_year))
RECURSIVE SortedByYear(_)
SortedByYear(list) ==
    IF list = << >> THEN << >>
    ELSE InsertByYear(list[Len(list)],
                      SortedByYear(SubSeq(list, 1, Len(list) - 1)))

\* Python truth of an optional number: not None and not zero.
Truthy(o) == ~IsNull(o) /\ Val(o) # 0

\* Python truth of an optional ratio.
TruthyRatio(o) == ~IsNull(o) /\ Val(o)[1] # 0

\* calc_percent_change(current, previous) of two ratios, in hundredths of a
\* percent; previous is not zero.
calc_percent_change_ratio(current, previous) ==
    Some(RoundHalfEven(
        (current[1] * previous[2] - previous[1] * current[2]) * 10000,
        current[2] * Abs(previous[1])))

\* The entry is recomputed whenever there is a sequence-previous row.
YoYEntry_AlwaysRecompute(stored, current, prev, col) ==
    IF IsNull(prev) THEN stored
    ELSE calc_percent_change(current, Val(prev)[col])

\* "Only calculate YoY changes if not already provided": the yoy entry of
\* a money column, from the stored change and the sequence-previous row.
YoYEntry(stored, current, prev, col) ==
    IF IsNull(prev) \/ ~IsNull(stored) THEN stored
    ELSE calc_percent_change(current, Val(prev)[col])

\* The ratio of the row itself must be non-zero as well.
RatioYoY_TruthyCurrent(current, prev, col) ==
    IF ~IsNull(prev) /\ TruthyRatio(current) /\ TruthyRatio(Val(prev)[col])
    THEN calc_percent_change_ratio(Val(current), Val(Val(prev)[col]))
    ELSE Null

\* "YoY for calculated ratios": the roa / roe entry, from the ratio of the
\* row as the loop holds it (stored, or derived a few lines above) and the
\* column col as stored on the sequence-previous row.
RatioYoY(current, prev, col) ==
    IF ~IsNull(prev) /\ ~IsNull(current) /\ TruthyRatio(Val(prev)[col])
    THEN calc_percent_change_ratio(Val(current), Val(Val(prev)[col]))
    ELSE Null

\* The values one pass of the loop derives for the row data: margins and
\* ratios that are not stored, and the yoy mapping.
Metric(data, prev) ==
    LET total_revenue == data.total_revenue
        net_profit == data.net_profit
        quotient(stored, n) ==
            IF IsNull(stored) /\ total_revenue # 0
            THEN Some(Frac(n, total_revenue)) ELSE stored
        return_on_equity ==
            IF IsNull(data.return_on_equity) /\ net_profit # 0
               /\ Truthy(data.shareholders_equity)
            THEN Some(Frac(net_profit, Val(data.shareholders_equity)))
            ELSE data.return_on_equity
        return_on_assets ==
            IF IsNull(data.return_on_assets) /\ net_profit # 0
               /\ Truthy(data.total_assets)
            THEN Some(Frac(net_profit, Val(data.total_assets)))
            ELSE data.return_on_assets
        book_value_per_share ==
            IF IsNull(data.book_value_per_share)
               /\ Truthy(data.shareholders_equity) /\ data.number_of_shares # 0
            THEN Some(Frac(Val(data.shareholders_equity),
                           data.number_of_shares))
            ELSE data.book_value_per_share
        yoy ==
            [revenue |-> YoYEntry(data.revenue_yoy_change, total_revenue,
                                  prev, "total_revenue"),
             gross_profit |-> YoYEntry(data.gross_profit_yoy_change,
                                       data.gross_profit, prev, "gross_profit"),
             operating_profit |-> YoYEntry(data.operating_profit_yoy_change,
                                           data.operating_profit, prev,
                                           "operating_profit"),
             net_profit |-> YoYEntry(data.net_profit_yoy_change, net_profit,
                                     prev, "net_profit"),
             free_cash_flow |-> YoYEntry(data.free_cash_flow_yoy_change,
                                         data.free_cash_flow, prev,
                                         "free_cash_flow"),
             book_value |->
                 IF ~IsNull(prev) /\ IsNull(data.book_value_yoy_change)
                    /\ ~IsNull(data.book_value) /\ Truthy(Val(prev).book_value)
                 THEN calc_percent_change(Val(data.book_value),
                                          Val(Val(prev).book_value))
                 ELSE data.book_value_yoy_change,
             roa |-> RatioYoY(return_on_assets, prev, "return_on_assets"),
             roe |-> RatioYoY(return_on_equity, prev, "return_on_equity")]
    IN  [year |-> data.fiscal_year,
         revenue |-> total_revenue,
         revenue_yoy_change |-> data.revenue_yoy_change,
         gross_profit |-> data.gross_profit,
         gross_profit_margin |->
             quotient(data.gross_profit_margin, data.gross_profit),
         gross_profit_yoy_change |-> data.gross_profit_yoy_change,
         operating_profit |-> data.operating_profit,
         operating_profit_margin |->
             quotient(data.operating_profit_margin, data.operating_profit),
         operating_profit_yoy_change |-> data.operating_profit_yoy_change,
         net_profit |-> net_profit,
         net_profit_margin |-> quotient(data.net_profit_margin, net_profit),
         net_profit_yoy_change |-> data.net_profit_yoy_change,
         free_cash_flow |-> data.free_cash_flow,
         free_cash_flow_yoy_change |-> data.free_cash_flow_yoy_change,
         number_of_shares |-> data.number_of_shares,
         return_on_equity |-> return_on_equity,
         return_on_assets |-> return_on_assets,
         book_value |-> data.book_value,
         book_value_per_share |-> book_value_per_share,
         book_value_yoy_change |-> data.book_value_yoy_change,
         eps |-> Some(data.eps),
         earning_power |-> data.earning_power,
         yoy |-> yoy]

\* The loop takes the record of the year before, not the row before.
calculate_financial_metrics_YearBefore(financial_data_list, company_name) ==
    LET sorted_data == SortedByYear(financial_data_list) IN
    [company |-> company_name,
     metrics |-> [i \in 1..Len(sorted_data) |->
                     Metric(sorted_data[i],
                            Lookup({ sorted_data[j] : j \in 1..Len(sorted_data) },
                                   sorted_data[i].company_id,
                                   PreviousYear(sorted_data[i].fiscal_year)))]]

\* calculate_financial_metrics(financial_data_list, company_name)
calculate_financial_metrics(financial_data_list, company_name) ==
    LET sorted_data == SortedByYear(financial_data_list) IN
    [company |-> company_name,
     metrics |-> [i \in 1..Len(sorted_data) |->
                     Metric(sorted_data[i],
                            IF i = 1 THEN Null ELSE Some(sorted_data[i - 1]))]]

\* db.query(FinancialData).filter(company_id == c).all(): the rows of the
\* company, in whatever order the database returns them.
QueryAll(st, c) ==
    LET rs == { r \in st : r.company_id = c }
        n == Cardinality(rs)
    IN  { list \in [1..n -> rs] :
            \A i \in 1..n, j \in 1..n : list[i] = list[j] => i = j }

\* The handler stores the revenue change it derives on the row it read.
DashboardRun_WriteBack(cs, st, c, list) ==
    IF ~CompanyExists(cs, c)
    THEN [status |-> 404, body |-> Null, store |-> st]
    ELSE LET out == calculate_financial_metrics(list,
                        (CHOOSE k \in cs : k.id = c).name)
             sorted_data == SortedByYear(list)
         IN  [status |-> 200, body |-> Some(out),
              store |-> { r \in st : r.company_id # c } \cup
                  { [sorted_data[i] EXCEPT
                        !.revenue_yoy_change = out.metrics[i].yoy.revenue]
                    : i \in 1..Len(sorted_data) }]

\* GET /companies/{company_id}/dashboard, for one order of the query result.
DashboardRun(cs, st, c, list) ==
    IF ~CompanyExists(cs, c)
    THEN [status |-> 404, body |-> Null, store |-> st]
    ELSE [status |-> 200,
          body |-> Some(calculate_financial_metrics(list,
                       (CHOOSE k \in cs : k.id = c).name)),
          store |-> st]

get_financial_data_by_company_Unfiltered(cs, st, c) ==
    IF ~CompanyExists(cs, c)
    THEN [status |-> 404, rows |-> {}]
    ELSE [status |-> 200, rows |-> st]

\* GET /companies/{company_id}/financial-data/
get_financial_data_by_company(cs, st, c) ==
    IF ~CompanyExists(cs, c)
    THEN [status |-> 404, rows |-> {}]
    ELSE [status |-> 200, rows |-> { r \in st : r.company_id = c }]

---------------------------------------------------------------------------
(* State *)

Sessions == {1, 2}

\* A session with no request in flight.
Idle ==
    [pc |-> "idle", op |-> "none", status |-> 0, company_id |-> 0,
     fiscal_year |-> << >>, input |-> Null, prev |-> Null, loaded |-> Null,
     staged |-> Null, id |-> 0]

RowId(row) == IF IsNull(row) THEN 0 ELSE Val(row).id

\* The record of the most recent request that committed (a 2xx response):
\* its handler, its status and the id of the row it wrote or deleted.  A
\* request answered 4xx or 5xx has rolled back or written nothing, and
\* leaves the record as it is.
Committed(op, status, id) ==
    IF status \in 200..299
    THEN [op |-> op, status |-> status, id |-> id]
    ELSE last

Init ==
    /\ companies = {}
    /\ store = {}
    /\ nextId = 1
    /\ last = [op |-> "none", status |-> 0, id |-> 0]
    /\ sess = [s \in Sessions |-> Idle]

---------------------------------------------------------------------------
(* Spec: one request at a time, each handler one action *)

\* POST /companies/ : the unique name makes a second insert an
\* IntegrityError (400); ids count up from 1.
CompanyRun(cs, name) ==
    IF \E k \in cs : k.name = name
    THEN [companies |-> cs, status |-> 400]
    ELSE [companies |-> cs \cup {[id |-> Cardinality(cs) + 1, name |-> name]},
          status |-> 201]

create_company(name) ==
    LET out == CompanyRun(companies, name) IN
    /\ companies' = out.companies
    /\ last' = Committed("create_company", out.status, 0)
    /\ UNCHANGED <<store, nextId, sess>>

create_financial_data(c, fd) ==
    LET out == SubmitRun(companies, store, nextId, c, fd) IN
    /\ out.nextId <= MaxRows + 1
    /\ store' = out.store
    /\ nextId' = out.nextId
    /\ last' = Committed("submit", out.status, RowId(out.row))
    /\ UNCHANGED <<companies, sess>>

update_financial_data(c, y, fd) ==
    LET out == UpdateRun(store, nextId, c, y, fd) IN
    /\ store' = out.store
    /\ nextId' = out.nextId
    /\ last' = Committed("update", out.status, RowId(out.row))
    /\ UNCHANGED <<companies, sess>>

delete_financial_data(c, y) ==
    LET out == DeleteRun(store, nextId, c, y) IN
    /\ store' = out.store
    /\ nextId' = out.nextId
    /\ last' = Committed("delete", out.status, RowId(out.row))
    /\ UNCHANGED <<companies, sess>>

\* A dashboard request; the query may return the rows in any order.  The
\* handler commits nothing.
get_dashboard_data(c) ==
    \E list \in QueryAll(store, c) :
        /\ store' = DashboardRun(companies, store, c, list).store
        /\ UNCHANGED <<companies, nextId, last, sess>>

Next ==
    \/ \E n \in Names : create_company(n)
    \/ \E r \in SubmitRequests : create_financial_data(r[1], r[2])
    \/ \E k \in Keys, fd \in UpdateInputs : update_financial_data(k[1], k[2], fd)
    \/ \E k \in Keys : delete_financial_data(k[1], k[2])
    \/ \E c \in 1..Cardinality(Names) : get_dashboard_data(c)

Spec == Init /\ [][Next]_vars

---------------------------------------------------------------------------
(* SpecRace: two sessions, handlers split at their database round trips.  *)
(* Every query reads the committed table as it is when the query runs     *)
(* (READ COMMITTED, the default of the PostgreSQL database_url); a        *)
(* session's commit is one atomic step.  A session holds the rows it has  *)
(* loaded as it loaded them.                                               *)

\* The requests of SpecRace contend for one key of one company.
RaceNames == {"Acme"}
RaceKey == <<1, Y1901>>
RaceInputs ==
    { WithYear(b, Y1901) : b \in ValidBodies }
    \cup { WithYear([BodyA EXCEPT !.number_of_shares = 0], Y1901) }

\* A session takes a request when it has none in flight.
Free(s) == sess[s].pc \in {"idle", "done"}

\* The response is sent and the session closed; the session keeps the
\* handler and the status of the response until its next request.
Respond(s, op, status, id) ==
    /\ sess' = [sess EXCEPT ![s] =
           [Idle EXCEPT !.pc = "done", !.op = op, !.status = status]]
    /\ last' = Committed(op, status, id)

\* create_financial_data up to the previous-year query.  (The company
\* query is folded into this step: companies are never deleted.)
SubmitBegin(s, c, fd) ==
    /\ Free(s)
    /\ IF ~Validate(fd) THEN Respond(s, "submit", 422, 0)
       ELSE IF ~CompanyExists(companies, c) THEN Respond(s, "submit", 404, 0)
       ELSE /\ sess' = [sess EXCEPT ![s] =
                    [Idle EXCEPT !.pc = "lookup", !.op = "submit",
                                 !.company_id = c,
                                 !.fiscal_year = fd.fiscal_year,
                                 !.input = Some(fd),
                                 !.prev = Lookup(store, c,
                                              PreviousYear(fd.fiscal_year))]]
            /\ UNCHANGED last
    /\ UNCHANGED <<companies, store, nextId>>

\* create_financial_data: the existing_data query and the staging of the
\* write, up to db.commit().
SubmitLookup(s) ==
    /\ sess[s].pc = "lookup"
    /\ sess' = [sess EXCEPT ![s] =
           [Idle EXCEPT !.pc = "commit", !.op = "submit",
                        !.staged = Some(StageSubmit(sess[s].company_id,
                            Val(sess[s].input), sess[s].prev,
                            Lookup(store, sess[s].company_id,
                                   sess[s].fiscal_year)))]]
    /\ UNCHANGED <<companies, store, nextId, last>>

\* update_financial_data: the db_financial_data query.
UpdateBegin(s, c, y, fd) ==
    /\ Free(s)
    /\ IF ~Validate(fd) THEN Respond(s, "update", 422, 0)
       ELSE IF IsNull(Lookup(store, c, y)) THEN Respond(s, "update", 404, 0)
       ELSE IF ~ParseInt(y).ok THEN Respond(s, "update", 500, 0)
       ELSE /\ sess' = [sess EXCEPT ![s] =
                    [Idle EXCEPT !.pc = "prev", !.op = "update",
                                 !.company_id = c, !.fiscal_year = y,
                                 !.input = Some(fd),
                                 !.loaded = Lookup(store, c, y)]]
            /\ UNCHANGED last
    /\ UNCHANGED <<companies, store, nextId>>

\* update_financial_data: the previous_data query and the staging of the
\* write, up to db.commit().
UpdatePrev(s) ==
    /\ sess[s].pc = "prev"
    /\ sess' = [sess EXCEPT ![s] =
           [Idle EXCEPT !.pc = "commit", !.op = "update",
                        !.staged = Some(StageUpdate(Val(sess[s].input),
                            Lookup(store, sess[s].company_id,
                                   PreviousYear(sess[s].fiscal_year)),
                            Val(sess[s].loaded)))]]
    /\ UNCHANGED <<companies, store, nextId, last>>

\* delete_financial_data: the query and db.delete().
DeleteBegin(s, c, y) ==
    /\ Free(s)
    /\ IF IsNull(Lookup(store, c, y)) THEN Respond(s, "delete", 404, 0)
       ELSE /\ sess' = [sess EXCEPT ![s] =
                    [Idle EXCEPT !.pc = "commit", !.op = "delete",
                                 !.staged =
                                     Some(StageDelete(Val(Lookup(store, c, y))))]]
            /\ UNCHANGED last
    /\ UNCHANGED <<companies, store, nextId>>

\* db.commit() of any of the three handlers.  create_financial_data turns
\* an IntegrityError into a rollback and a 400; a StaleDataError is caught
\* nowhere (500; the session is closed, the transaction rolled back).
\* delete_financial_data answers 204 at once; the others go on to
\* db.refresh().
Commit(s) ==
    /\ sess[s].pc = "commit"
    /\ LET fl == Flush(store, nextId, Val(sess[s].staged)) IN
       /\ fl.nextId <= MaxRows + 1
       /\ store' = fl.store
       /\ nextId' = fl.nextId
       /\ IF fl.err = "integrity"
          THEN Respond(s, sess[s].op, IntegrityStatus(sess[s].op), 0)
          ELSE IF fl.err = "stale" THEN Respond(s, sess[s].op, 500, 0)
          ELSE IF sess[s].op = "delete" THEN Respond(s, "delete", 204, fl.id)
          ELSE /\ sess' = [sess EXCEPT ![s] =
                       [Idle EXCEPT !.pc = "refresh", !.op = sess[s].op,
                                    !.id = fl.id]]
               /\ UNCHANGED last
    /\ UNCHANGED companies

\* db.refresh(row) and the response; the row may be gone by now
\* (InvalidRequestError, 500, after the commit).
RefreshStep(s) ==
    /\ sess[s].pc = "refresh"
    /\ Respond(s, sess[s].op,
               IF IsNull(Refresh(store, sess[s].id)) THEN 500 ELSE 200,
               sess[s].id)
    /\ UNCHANGED <<companies, store, nextId>>

NextRace ==
    \/ \E n \in RaceNames : create_company(n)
    \/ \E s \in Sessions, fd \in RaceInputs : SubmitBegin(s, RaceKey[1], fd)
    \/ \E s \in Sessions : SubmitLookup(s)
    \/ \E s \in Sessions, fd \in RaceInputs :
           UpdateBegin(s, RaceKey[1], RaceKey[2], fd)
    \/ \E s \in Sessions : UpdatePrev(s)
    \/ \E s \in Sessions : DeleteBegin(s, RaceKey[1], RaceKey[2])
    \/ \E s \in Sessions : Commit(s)
    \/ \E s \in Sessions : RefreshStep(s)

SpecRace == Init /\ [][NextRace]_vars

---------------------------------------------------------------------------
(* SpecDash: the dashboard over tables that hold rows with the legacy      *)
(* columns filled (total_assets, shareholders_equity: columns of the table *)
(* that no handler of this router assigns) and with stored ratios.         *)

\* What the rows of SpecDash differ in: the stored ratios, the legacy
\* columns the ratios are derived from at read time, and net_profit.
LegacyVariants ==
    << \* a row as create_financial_data writes it from BodyA
       [return_on_equity |-> Null, shareholders_equity |-> Null,
        return_on_assets |-> Null, total_assets |-> Null, net_profit |-> -1],
       \* both ratios stored
       [return_on_equity |-> Some(<<1, 2>>), shareholders_equity |-> Null,
        return_on_assets |-> Some(<<1, 4>>), total_assets |-> Null,
        net_profit |-> 1],
       \* a stored return_on_equity of zero
       [return_on_equity |-> Some(<<0, 1>>), shareholders_equity |-> Null,
        return_on_assets |-> Null, total_assets |-> Null, net_profit |-> -1],
       \* no ratio stored, both derived at read time (-1/2 and -1/4)
       [return_on_equity |-> Null, shareholders_equity |-> Some(2),
        return_on_assets |-> Null, total_assets |-> Some(4), net_profit |-> -1],
       \* shareholders_equity of zero: nothing to derive from
       [return_on_equity |-> Null, shareholders_equity |-> Some(0),
        return_on_assets |-> Null, total_assets |-> Null, net_profit |-> -1],
       \* net_profit of zero: nothing derived
       [return_on_equity |-> Null, shareholders_equity |-> Some(2),
        return_on_assets |-> Null, total_assets |-> Some(4), net_profit |-> 0],
       \* a stored return_on_equity beside the legacy columns
       [return_on_equity |-> Some(<<1, 2>>), shareholders_equity |-> Some(2),
        return_on_assets |-> Null, total_assets |-> Some(4), net_profit |-> 1] >>

DashYears == <<Y1900, Y1901, Y1902>>

\* The row of company 1 with id i, year DashYears[i] and variant v.
LegacyRow(i, v) ==
    LET fd == WithYear(BodyA, DashYears[i]) IN
    [NewRow(1, fd, Derived(fd, Null)) EXCEPT
        !.id = i,
        !.net_profit = v.net_profit,
        !.net_profit_margin = Some(Frac(v.net_profit, fd.total_revenue)),
        !.return_on_equity = v.return_on_equity,
        !.return_on_assets = v.return_on_assets,
        !.shareholders_equity = v.shareholders_equity,
        !.total_assets = v.total_assets]

\* One company and, for each of three years, no row or a row of one of the
\* variants.
InitDash ==
    /\ companies = {[id |-> 1, name |-> "Acme"]}
    /\ \E pick \in [1..Len(DashYears) -> 0..Len(LegacyVariants)] :
           store = { LegacyRow(i, LegacyVariants[pick[i]]) :
                       i \in { j \in 1..Len(DashYears) : pick[j] # 0 } }
    /\ nextId = Len(DashYears) + 1
    /\ last = [op |-> "none", status |-> 0, id |-> 0]
    /\ sess = [s \in Sessions |-> Idle]

NextDash ==
    \/ \E c \in 1..Cardinality(Names) : get_dashboard_data(c)
    \/ \E k \in Keys : delete_financial_data(k[1], k[2])

SpecDash == InitDash /\ [][NextDash]_vars

---------------------------------------------------------------------------
(* Properties *)

\* The rows of the table that hold the key of a staged row.
SameKey(st, row) == Rows(st, row.company_id, row.fiscal_year)

\* The staged write of a session that has reached db.commit().
AtCommit(s, kind) ==
    /\ sess[s].pc = "commit"
    /\ Val(sess[s].staged).kind = kind

\* The company ids POST /companies/ has handed out.
KnownCompanies == { k.id : k \in companies }

\* The row of the table with the given id.
RowOf(st, id) == CHOOSE r \in st : r.id = id

\* A fiscal_year that is an integer string between 1900 and 2100.
YearInRange(y) ==
    /\ ParseInt(y).ok
    /\ ParseInt(y).val >= 1900
    /\ ParseInt(y).val <= 2100

\* A body with a bad fiscal_year, or with total_revenue or number_of_shares
\* not above zero.
BadInput(fd) ==
    \/ ~YearInRange(fd.fiscal_year)
    \/ fd.total_revenue <= 0
    \/ fd.number_of_shares <= 0

\* What GET, PUT and DELETE of a key answer against a table.
AllNotFound(st, nid, k) ==
    /\ get_financial_data_by_year(st, k[1], k[2]).status = 404
    /\ DeleteRun(st, nid, k[1], k[2]).status = 404
    /\ \A fd \in UpdateInputs :
           ~BadInput(fd) => UpdateRun(st, nid, k[1], k[2], fd).status = 404

\* The margins of a stored row as its own stored base fields give them.
MarginsAgree(r) ==
    /\ r.gross_profit_margin = Some(Frac(r.gross_profit, r.total_revenue))
    /\ r.operating_profit_margin =
           Some(Frac(r.operating_profit, r.total_revenue))
    /\ r.net_profit_margin = Some(Frac(r.net_profit, r.total_revenue))

\* C1: at most one record is stored for any (company_id, fiscal_year), in
\* every state any interleaving of concurrent requests can reach.
C1_OneRecordPerKey ==
    \A r1 \in store, r2 \in store :
        (r1.company_id = r2.company_id /\ r1.fiscal_year = r2.fiscal_year)
            => r1 = r2

\* A session has found no record, staged an INSERT and not yet committed it,
\* while the record of its key has been committed by the other session.
C1_Witness ==
    \E s \in Sessions :
        /\ AtCommit(s, "insert")
        /\ SameKey(store, Val(sess[s].staged).row) # {}
        /\ sess[3 - s].pc = "done"
        /\ sess[3 - s].op = "submit"
        /\ sess[3 - s].status = 200

C3_DuplicateSubmitRejected ==
    \A r \in SubmitRequests :
        (~BadInput(r[2]) /\ r[1] \in KnownCompanies
             /\ Rows(store, r[1], r[2].fiscal_year) # {}) =>
            SubmitRun(companies, store, nextId, r[1], r[2]).status = 400

\* C4: when a session commits an INSERT it staged after finding no record,
\* either the key is still free and the commit adds exactly that one row, or
\* the key has been taken meanwhile and the request ends with 400, the table
\* as it was (the transaction rolled back, nothing written in part); the
\* table never holds two rows of the key.
C4_InsertRace ==
    [][\A s \in Sessions :
          (AtCommit(s, "insert") /\ sess'[s] # sess[s]) =>
              LET row == Val(sess[s].staged).row IN
              IF SameKey(store, row) = {}
              THEN /\ store' = store \cup {[row EXCEPT !.id = nextId]}
                   /\ Cardinality(SameKey(store', row)) = 1
                   /\ sess'[s].pc = "refresh"
              ELSE /\ sess'[s].pc = "done"
                   /\ sess'[s].status = 400
                   /\ store' = store
                   /\ Cardinality(SameKey(store', row)) = 1]_vars

\* Both sessions staged an INSERT of the same key, one has committed and
\* answered 200, the other has been answered 400.
C4_Witness ==
    \E s \in Sessions :
        /\ sess[s].pc = "done" /\ sess[s].op = "submit" /\ sess[s].status = 400
        /\ sess[3 - s].pc = "done" /\ sess[3 - s].op = "submit"
        /\ sess[3 - s].status = 200
        /\ Cardinality(store) = 1
        /\ nextId = 2

\* C5 (as amended): a submit that names a company that does not exist is
\* answered 404 when its body is valid and 422 when it is not, and in both
\* cases leaves the table as it was.
C5_SubmitUnknownCompany ==
    \A r \in SubmitRequests :
        r[1] \notin KnownCompanies =>
            LET o == SubmitRun(companies, store, nextId, r[1], r[2]) IN
            /\ o.status = IF BadInput(r[2]) THEN 422 ELSE 404
            /\ o.store = store
            /\ o.nextId = nextId

\* C5 (as stated): a submit that names a company that does not exist is
\* answered 404 and leaves the table as it was, for every input.
C5_AnyInputNotFound ==
    \A r \in SubmitRequests :
        r[1] \notin KnownCompanies =>
            LET o == SubmitRun(companies, store, nextId, r[1], r[2]) IN
            /\ o.status = 404
            /\ o.store = store
            /\ o.nextId = nextId

\* Records are stored, the last request committed was a submit, and a valid
\* request names a company that was never created and is answered 404.
C5_Witness ==
    /\ store # {}
    /\ last.op = "submit"
    /\ \E r \in SubmitRequests :
           /\ ~BadInput(r[2])
           /\ r[1] \notin KnownCompanies
           /\ SubmitRun(companies, store, nextId, r[1], r[2]).status = 404

\* C6: a valid update of a company and fiscal year that have no record is
\* answered 404 and creates nothing.
C6_UpdateMissing ==
    \A k \in Keys, fd \in UpdateInputs :
        (~BadInput(fd) /\ Rows(store, k[1], k[2]) = {}) =>
            LET o == UpdateRun(store, nextId, k[1], k[2], fd) IN
            /\ o.status = 404
            /\ o.store = store
            /\ o.nextId = nextId

\* A company has a record of one year and none of another, whose update is
\* answered 404.
C6_Witness ==
    \E k \in Keys, j \in Keys, fd \in UpdateInputs :
        /\ k[1] = j[1]
        /\ Rows(store, j[1], j[2]) # {}
        /\ Rows(store, k[1], k[2]) = {}
        /\ ~BadInput(fd)
        /\ UpdateRun(store, nextId, k[1], k[2], fd).status = 404

\* C7: an update that commits leaves the record under the company_id and the
\* fiscal_year of its path, whatever fiscal_year the body carries, touches no
\* other row, and stores the YoY changes computed against the record of the
\* year before the path's fiscal_year.
C7_UpdateKeepsKey ==
    [][(vars' # vars /\ last'.op = "update") =>
          /\ \E r \in store : r.id = last'.id
          /\ \E r \in store' : r.id = last'.id
          /\ LET old == RowOf(store, last'.id)
                 new == RowOf(store', last'.id)
                 yoy == YoY(new, Lookup(store, old.company_id,
                                        PreviousYear(old.fiscal_year)))
             IN  /\ new.fiscal_year = old.fiscal_year
                 /\ new.company_id = old.company_id
                 /\ store' \ {new} = store \ {old}
                 /\ \A f \in DOMAIN yoy : new[f] = yoy[f]]_vars

\* The last request committed was an update of the record of "1901" with the
\* body whose fiscal_year is "1900", while a record of "1900" is stored.
C7_Witness ==
    /\ last.op = "update"
    /\ \E r \in store :
           /\ r.id = last.id
           /\ r.fiscal_year = Y1901
           /\ r.total_revenue = BodyB.total_revenue
           /\ ~IsNull(r.revenue_yoy_change)

\* C8: in every table a request leaves behind, a delete of a key that has
\* no record is answered 404 and changes nothing; a delete of a key that has
\* one removes that row and no other, after which get, update and delete of
\* the key are answered 404; and a key without a record gets one only by a
\* submit.
C8_Delete ==
    [][store' # store =>
          \A k \in Keys :
              LET o == DeleteRun(store', nextId', k[1], k[2]) IN
              /\ IF Rows(store', k[1], k[2]) = {}
                 THEN /\ o.status = 404
                      /\ o.store = store'
                      /\ AllNotFound(store', nextId', k)
                 ELSE /\ o.status = 204
                      /\ o.store = store' \ Rows(store', k[1], k[2])
                      /\ Cardinality(o.store) = Cardinality(store') - 1
                      /\ AllNotFound(o.store, o.nextId, k)
              /\ (Rows(store, k[1], k[2]) = {} /\ Rows(store', k[1], k[2]) # {})
                     => last'.op = "submit"]_vars

\* The last request committed was a delete, its row is gone, and another
\* record of the same company remains.
C8_Witness ==
    /\ last.op = "delete"
    /\ \A r \in store : r.id # last.id
    /\ \E k \in Keys, j \in Keys :
           /\ k[1] = j[1]
           /\ Rows(store, k[1], k[2]) = {}
           /\ Rows(store, j[1], j[2]) # {}
           /\ AllNotFound(store, nextId, k)

\* C9: a submit or an update whose body has a fiscal_year that is not an
\* integer string in 1900..2100, or total_revenue <= 0, or number_of_shares
\* <= 0, is answered 422 and leaves the table as it was; every stored record
\* has a fiscal_year that is an integer string in 1900..2100.
C9_Validation ==
    /\ \A r \in store : YearInRange(r.fiscal_year)
    /\ \A r \in SubmitRequests :
           BadInput(r[2]) =>
               LET o == SubmitRun(companies, store, nextId, r[1], r[2]) IN
               o.status = 422 /\ o.store = store /\ o.nextId = nextId
    /\ \A k \in Keys, fd \in UpdateInputs :
           BadInput(fd) =>
               LET o == UpdateRun(store, nextId, k[1], k[2], fd) IN
               o.status = 422 /\ o.store = store /\ o.nextId = nextId

\* A stored record is the target of an update with total_revenue = 0, and
\* of a submit with number_of_shares = 0, both answered 422.
C9_Witness ==
    \E r \in SubmitRequests, k \in Keys, fd \in UpdateInputs :
        /\ Rows(store, k[1], k[2]) # {}
        /\ k = <<r[1], r[2].fiscal_year>>
        /\ r[2].number_of_shares = 0
        /\ fd.total_revenue = 0
        /\ SubmitRun(companies, store, nextId, r[1], r[2]).status = 422
        /\ UpdateRun(store, nextId, k[1], k[2], fd).status = 422

\* C10: every stored record has gross, operating and net profit margin equal
\* to gross_profit, operating_profit and net_profit over total_revenue, all
\* taken from the record's own stored fields.
C10_MarginsFromStoredFields == \A r \in store : MarginsAgree(r)

\* The money columns that have a YoY column, with that column.
YoYColumn ==
    [total_revenue |-> "revenue_yoy_change",
     gross_profit |-> "gross_profit_yoy_change",
     operating_profit |-> "operating_profit_yoy_change",
     net_profit |-> "net_profit_yoy_change",
     free_cash_flow |-> "free_cash_flow_yoy_change"]

\* round((cur - prev) / abs(prev) * 100, 2), in hundredths of a percent.
RoundedPercent(cur, prev) ==
    RoundHalfEven((cur - prev) * 10000, Abs(prev))

\* The YoY columns of row agree with the body fd it was written from and the
\* record p of the year before.
YoYAsSpecified(row, fd, p) ==
    /\ \A m \in DOMAIN YoYColumn :
           row[YoYColumn[m]] =
               IF p[m] # 0 THEN Some(RoundedPercent(fd[m], p[m])) ELSE Null
    /\ row.book_value_yoy_change =
           IF ~IsNull(fd.book_value) /\ ~IsNull(p.book_value)
              /\ Val(p.book_value) # 0
           THEN Some(RoundedPercent(Val(fd.book_value), Val(p.book_value)))
           ELSE Null

\* The requests of Spec with a body that passes validation.
GoodSubmits ==
    { r \in SubmitRequests : ~BadInput(r[2]) /\ r[1] \in KnownCompanies }

GoodUpdates ==
    { u \in Keys \X UpdateInputs :
        ~BadInput(u[2]) /\ Rows(store, u[1][1], u[1][2]) # {} }

\* C11: a submit or an update of year Y, with a record P of the same company
\* stored for year Y-1, succeeds and stores for each of total_revenue,
\* gross_profit, operating_profit, net_profit and free_cash_flow the change
\* round((input.M - P.M) / abs(P.M) * 100, 2) when P.M is not zero and no
\* value when it is; book_value_yoy_change likewise when both book values
\* are present, and no value otherwise.
C11_YoYFormula ==
    /\ \A r \in GoodSubmits :
           LET p == Rows(store, r[1], PreviousYear(r[2].fiscal_year))
               o == SubmitRun(companies, store, nextId, r[1], r[2])
           IN  p # {} =>
                   /\ o.status = 200
                   /\ \A q \in p : YoYAsSpecified(Val(o.row), r[2], q)
    /\ \A u \in GoodUpdates :
           LET p == Rows(store, u[1][1], PreviousYear(u[1][2]))
               o == UpdateRun(store, nextId, u[1][1], u[1][2], u[2])
           IN  p # {} =>
                   /\ o.status = 200
                   /\ \A q \in p : YoYAsSpecified(Val(o.row), u[2], q)

\* The last request committed wrote a row against a previous record with a
\* negative net_profit, a zero operating_profit and no book_value: the row
\* has a net_profit change of +200 %, no operating_profit change and no
\* book_value change though it has a book_value.
C11_Witness ==
    /\ last.op \in {"submit", "update"}
    /\ \E r \in store :
           /\ r.id = last.id
           /\ \E q \in Rows(store, r.company_id, PreviousYear(r.fiscal_year)) :
                  /\ q.net_profit < 0 /\ q.operating_profit = 0
                  /\ IsNull(q.book_value)
           /\ r.net_profit_yoy_change = Some(20000)
           /\ IsNull(r.operating_profit_yoy_change)
           /\ ~IsNull(r.book_value)
           /\ IsNull(r.book_value_yoy_change)

\* The stored records of a company.
RecordsOf(c) == { r \in store : r.company_id = c }

\* The metrics of the dashboard of company c for one order of the query.
MetricsOf(c, list) ==
    Val(DashboardRun(companies, store, c, list).body).metrics

\* C12: the dashboard of a company answers with exactly one snapshot per
\* stored record of that company and none of another company's, in strictly
\* ascending order of fiscal_year compared as a string; a company without
\* records gets the empty list.
C12_DashboardOrder ==
    \A c \in KnownCompanies : \A list \in QueryAll(store, c) :
        LET m == MetricsOf(c, list) IN
        /\ DashboardRun(companies, store, c, list).status = 200
        /\ Len(m) = Cardinality(RecordsOf(c))
        /\ \A r \in RecordsOf(c) :
               \E i \in 1..Len(m) :
                   m[i].year = r.fiscal_year /\ m[i].revenue = r.total_revenue
        /\ \A i \in 1..Len(m), j \in 1..Len(m) :
               i < j => StrLess(m[i].year, m[j].year)
        /\ RecordsOf(c) = {} => m = << >>

\* Company 1 has the records of "01901" and "1900", and its dashboard lists
\* "01901" first, which is the later year.
C12_Witness ==
    /\ { r.fiscal_year : r \in RecordsOf(1) } = {Y01901, Y1900}
    /\ \E list \in QueryAll(store, 1) :
           /\ list[1].fiscal_year = Y1900
           /\ MetricsOf(1, list)[1].year = Y01901
           /\ MetricsOf(1, list)[2].year = Y1900

\* C13: in every reachable state, a valid submit to an existing company
\* returns a record with the fiscal_year and total_revenue of its body and
\* the company_id of its path, and get-by-year and list-by-company then
\* report that same record for the key; a stored record changes or goes only
\* in a step that commits a submit, update or delete of that record.
C13_SubmitThenRead ==
    /\ [](\A r \in SubmitRequests :
              (~BadInput(r[2]) /\ r[1] \in KnownCompanies) =>
                  LET o == SubmitRun(companies, store, nextId, r[1], r[2])
                      y == r[2].fiscal_year
                  IN  /\ o.status = 200
                      /\ Val(o.row).fiscal_year = y
                      /\ Val(o.row).total_revenue = r[2].total_revenue
                      /\ Val(o.row).company_id = r[1]
                      /\ get_financial_data_by_year(o.store, r[1], y).row = o.row
                      /\ { x \in get_financial_data_by_company(
                                     companies, o.store, r[1]).rows :
                                 x.fiscal_year = y } = {Val(o.row)})
    /\ [][\A x \in store :
              x \notin store' =>
                  /\ last'.op \in {"submit", "update", "delete"}
                  /\ last'.id = x.id]_vars

\* The last request committed was a submit, both companies have a record of
\* "1901", and get-by-year and list-by-company report the submitted record.
C13_Witness ==
    /\ last.op = "submit"
    /\ \E x \in store :
           /\ x.id = last.id
           /\ x.fiscal_year = Y1901
           /\ \E z \in store : z.fiscal_year = Y1901 /\ z.company_id # x.company_id
           /\ get_financial_data_by_year(store, x.company_id, Y1901).row = Some(x)
           /\ { w \in get_financial_data_by_company(
                          companies, store, x.company_id).rows :
                    w.fiscal_year = Y1901 } = {x}

\* C14: in every reachable state a dashboard request leaves the table as it
\* is, for every company id and whatever the order in which the query
\* returns the rows, and every such order of the same table gives the same
\* response.
C14_DashboardPure ==
    \A c \in 1..Cardinality(Names) :
        \A l1 \in QueryAll(store, c) :
            /\ DashboardRun(companies, store, c, l1).store = store
            /\ \A l2 \in QueryAll(store, c) :
                   /\ DashboardRun(companies, store, c, l2).status =
                          DashboardRun(companies, store, c, l1).status
                   /\ DashboardRun(companies, store, c, l2).body =
                          DashboardRun(companies, store, c, l1).body

\* Company 1 has two records the query may return in either order, and the
\* dashboard derives for the second one a revenue change that is not stored.
C14_Witness ==
    /\ Cardinality(RecordsOf(1)) = 2
    /\ \E list \in QueryAll(store, 1) :
           LET m == MetricsOf(1, list) IN
           /\ IsNull(m[2].revenue_yoy_change)
           /\ ~IsNull(m[2].yoy.revenue)
           /\ DashboardRun(companies, store, 1, list).store = store

YoYFields ==
    {"revenue_yoy_change", "gross_profit_yoy_change",
     "operating_profit_yoy_change", "net_profit_yoy_change",
     "free_cash_flow_yoy_change", "book_value_yoy_change"}

\* The fiscal_year str(int(y) - 1) of the record a YoY change is taken
\* against.
YearBefore(y) == IntToStr(ParseInt(y).val - 1)

\* C15: a valid submit or update of year Y of a company that has no record
\* whose fiscal_year is the string str(int(Y) - 1) succeeds and leaves all
\* six YoY columns of the row it writes unset, whatever other records the
\* company or another company has.
C15_ExactPreviousYear ==
    /\ \A r \in GoodSubmits :
           LET o == SubmitRun(companies, store, nextId, r[1], r[2]) IN
           Rows(store, r[1], YearBefore(r[2].fiscal_year)) = {} =>
               /\ o.status = 200
               /\ \A f \in YoYFields : IsNull(Val(o.row)[f])
    /\ \A u \in GoodUpdates :
           LET o == UpdateRun(store, nextId, u[1][1], u[1][2], u[2]) IN
           Rows(store, u[1][1], YearBefore(u[1][2])) = {} =>
               /\ o.status = 200
               /\ \A f \in YoYFields : IsNull(Val(o.row)[f])

\* The last request committed wrote the record of "1902" of a company that
\* has a record of "1900" and none of "1901"; the six YoY columns are unset.
C15_Witness ==
    /\ last.op \in {"submit", "update"}
    /\ \E r \in store :
           /\ r.id = last.id
           /\ r.fiscal_year = Y1902
           /\ Rows(store, r.company_id, Y1900) # {}
           /\ Rows(store, r.company_id, Y1901) = {}
           /\ \A f \in YoYFields : IsNull(r[f])

\* C16: a valid submit or update whose body carries a revenue_yoy_change of
\* the caller's stores that value in the row it writes.
C16_SuppliedYoYKept ==
    /\ \A r \in GoodSubmits :
           ~IsNull(r[2].revenue_yoy_change) =>
               LET o == SubmitRun(companies, store, nextId, r[1], r[2]) IN
               /\ o.status = 200
               /\ Val(o.row).revenue_yoy_change = r[2].revenue_yoy_change
    /\ \A u \in GoodUpdates :
           ~IsNull(u[2].revenue_yoy_change) =>
               LET o == UpdateRun(store, nextId, u[1][1], u[1][2], u[2]) IN
               /\ o.status = 200
               /\ Val(o.row).revenue_yoy_change = u[2].revenue_yoy_change

\* The keys of the yoy mapping that have a stored column, with that column
\* and the column of the amount.
YoYKeys ==
    [revenue |-> <<"revenue_yoy_change", "total_revenue">>,
     gross_profit |-> <<"gross_profit_yoy_change", "gross_profit">>,
     operating_profit |-> <<"operating_profit_yoy_change", "operating_profit">>,
     net_profit |-> <<"net_profit_yoy_change", "net_profit">>,
     free_cash_flow |-> <<"free_cash_flow_yoy_change", "free_cash_flow">>,
     book_value |-> <<"book_value_yoy_change", "book_value">>]

\* The snapshot of the dashboard of company c that is about the record r.
SnapshotOf(c, list, r) ==
    LET m == MetricsOf(c, list) IN
    m[CHOOSE i \in 1..Len(m) : m[i].year = r.fiscal_year]

\* C17: in the dashboard of every company, for every record and each of the
\* six keys revenue, gross_profit, operating_profit, net_profit,
\* free_cash_flow and book_value, a change that is stored on the record is
\* the entry of the yoy mapping (and the flat field), so that an entry that
\* differs from the stored column is the entry of a column stored unset.
C17_StoredYoYKept ==
    \A c \in KnownCompanies : \A list \in QueryAll(store, c) :
        \A r \in RecordsOf(c) :
            LET m == SnapshotOf(c, list, r) IN
            \A k \in DOMAIN YoYKeys :
                /\ m[YoYKeys[k][1]] = r[YoYKeys[k][1]]
                /\ ~IsNull(r[YoYKeys[k][1]]) => m.yoy[k] = r[YoYKeys[k][1]]

\* A record stores a revenue change of +200 % though its revenue equals that
\* of the record before it in the sorted sequence (the earlier year was
\* rewritten since), and the dashboard reports the stored +200 %.
C17_Witness ==
    \E list \in QueryAll(store, 1) :
        /\ Len(list) = 2
        /\ LET sorted_data == SortedByYear(list)
               m == MetricsOf(1, list)
           IN  /\ sorted_data[2].revenue_yoy_change = Some(20000)
               /\ sorted_data[2].total_revenue = sorted_data[1].total_revenue
               /\ m[2].yoy.revenue = Some(20000)

\* What a recomputed entry of key k of the record cur is, against the record
\* prev before it in the sequence: the rounded percent change of the amount,
\* unset when the previous amount is zero or either amount is absent.
Recomputed(k, cur, prev) ==
    LET col == YoYKeys[k][2] IN
    IF k = "book_value"
    THEN IF ~IsNull(cur[col]) /\ ~IsNull(prev[col]) /\ Val(prev[col]) # 0
         THEN Some(RoundedPercent(Val(cur[col]), Val(prev[col])))
         ELSE Null
    ELSE IF prev[col] # 0 THEN Some(RoundedPercent(cur[col], prev[col]))
         ELSE Null

\* C18: in the dashboard of every company, whose snapshots are in ascending
\* string order of fiscal_year, the entry of the yoy mapping of a change
\* that is stored unset is, for every snapshot but the first, the rounded
\* percent change against the record of the snapshot just before it,
\* whatever the year of that record, and unset when the previous amount is
\* zero or absent; the first snapshot has no such entry.
C18_SequencePrevious ==
    \A c \in KnownCompanies : \A list \in QueryAll(store, c) :
        LET m == MetricsOf(c, list)
            rec(i) == CHOOSE r \in RecordsOf(c) : r.fiscal_year = m[i].year
        IN  \A i \in 1..Len(m) : \A k \in DOMAIN YoYKeys :
                IsNull(rec(i)[YoYKeys[k][1]]) =>
                    m[i].yoy[k] =
                        IF i = 1 THEN Null
                        ELSE Recomputed(k, rec(i), rec(i - 1))

\* Company 1 has the records of "1900" and "1902" only; the snapshot of
\* "1902" has no stored change and a recomputed revenue change of +200 %
\* against "1900", no operating_profit change (the previous amount is zero),
\* and the snapshot of "1900" has no entry at all.
C18_Witness ==
    /\ { r.fiscal_year : r \in RecordsOf(1) } = {Y1900, Y1902}
    /\ \E list \in QueryAll(store, 1) :
           LET m == MetricsOf(1, list) IN
           /\ m[2].year = Y1902
           /\ IsNull(m[2].revenue_yoy_change)
           /\ m[2].yoy.revenue = Some(20000)
           /\ IsNull(m[2].yoy.operating_profit)
           /\ \A k \in DOMAIN YoYKeys : IsNull(m[1].yoy[k])

\* The fields of a body the row takes as they are: all but the margins,
\* which the handler computes.
PlainFields ==
    BodyFields \ {"gross_profit_margin", "operating_profit_margin",
                  "net_profit_margin"}

RatioAtRead(r, col, legacy) ==
    IF ~IsNull(r[col]) THEN r[col]
    ELSE IF r.net_profit # 0 /\ ~IsNull(r[legacy]) /\ Val(r[legacy]) # 0
    THEN Some(Frac(r.net_profit, Val(r[legacy])))
    ELSE Null

\* round((cur - prev) / abs(prev) * 100, 2) of two ratios, in hundredths of
\* a percent.
RoundedPercentRatio(cur, prev) ==
    RoundHalfEven((cur[1] * prev[2] - prev[1] * cur[2]) * 10000,
                  cur[2] * Abs(prev[1]))

\* The entry key of the yoy mapping of the snapshot m of the record cur,
\* whose sequence-previous record is prev (Null for the first): the rounded
\* change of the ratio cur has at read time against the ratio stored on
\* prev, when cur has one and the stored one exists and is not zero; unset
\* otherwise.
RatioEntryAsSpecified(m, key, cur, prev, col, legacy) ==
    LET c == RatioAtRead(cur, col, legacy) IN
    m.yoy[key] =
        IF ~IsNull(prev) /\ ~IsNull(c) /\ ~IsNull(Val(prev)[col])
           /\ Val(Val(prev)[col])[1] # 0
        THEN Some(RoundedPercentRatio(Val(c), Val(Val(prev)[col])))
        ELSE Null

\* C20: in the dashboard of every company, the entries roa and roe of every
\* snapshot are the rounded changes of return_on_assets and
\* return_on_equity, stored or derived at read time, against the value
\* stored on the record just before in the sequence, exactly when the record
\* has such a ratio and that stored value exists and is not zero; they are
\* unset in every other case, the first snapshot included.
C20_RatioYoY ==
    \A c \in KnownCompanies : \A list \in QueryAll(store, c) :
        LET m == MetricsOf(c, list)
            rec(i) == CHOOSE r \in RecordsOf(c) : r.fiscal_year = m[i].year
            before(i) == IF i = 1 THEN Null ELSE Some(rec(i - 1))
        IN  \A i \in 1..Len(m) :
                /\ m[i].return_on_equity =
                       RatioAtRead(rec(i), "return_on_equity",
                                   "shareholders_equity")
                /\ m[i].return_on_assets =
                       RatioAtRead(rec(i), "return_on_assets", "total_assets")
                /\ RatioEntryAsSpecified(m[i], "roe", rec(i), before(i),
                       "return_on_equity", "shareholders_equity")
                /\ RatioEntryAsSpecified(m[i], "roa", rec(i), before(i),
                       "return_on_assets", "total_assets")

\* Three records: the first stores both ratios (1/2 and 1/4), the second
\* stores none and has them derived at read time (-1/2 and -1/4), the third
\* stores a return_on_equity of zero.  The second snapshot has roe and roa
\* of -200 %; the third has none, the ratios of the second being derived
\* and not stored; the first has none.
C20_Witness ==
    /\ Cardinality(RecordsOf(1)) = 3
    /\ \E list \in QueryAll(store, 1) :
           LET m == MetricsOf(1, list)
               sorted_data == SortedByYear(list)
           IN  /\ sorted_data[1].return_on_equity = Some(<<1, 2>>)
               /\ IsNull(sorted_data[2].return_on_equity)
               /\ m[2].return_on_equity = Some(<<-1, 2>>)
               /\ m[2].yoy.roe = Some(-20000)
               /\ m[2].yoy.roa = Some(-20000)
               /\ sorted_data[3].return_on_equity = Some(<<0, 1>>)
               /\ IsNull(m[3].yoy.roe)
               /\ IsNull(m[1].yoy.roe) /\ IsNull(m[1].yoy.roa)

\* What a ratio num / den derived at read time is to be when the stored
\* column is unset: the quotient when the denominator is present and not
\* zero, unset otherwise; a stored ratio stays.
DerivedAsSpecified(stored, num, den) ==
    IF ~IsNull(stored) THEN stored
    ELSE IF ~IsNull(den) /\ Val(den) # 0 /\ ~IsNull(num)
    THEN Some(Frac(Val(num), Val(den)))
    ELSE Null

\* C21: in every snapshot of the dashboard, return_on_equity is the stored
\* ratio, or when none is stored net_profit / shareholders_equity,
\* return_on_assets likewise net_profit / total_assets, and
\* book_value_per_share likewise shareholders_equity / number_of_shares;
\* each is unset when nothing is stored and the denominator is zero or
\* absent.
C21_DerivedRatios ==
    \A c \in KnownCompanies : \A list \in QueryAll(store, c) :
        \A r \in RecordsOf(c) :
            LET m == SnapshotOf(c, list, r) IN
            /\ m.return_on_equity =
                   DerivedAsSpecified(r.return_on_equity, Some(r.net_profit),
                                      r.shareholders_equity)
            /\ m.return_on_assets =
                   DerivedAsSpecified(r.return_on_assets, Some(r.net_profit),
                                      r.total_assets)
            /\ m.book_value_per_share =
                   DerivedAsSpecified(r.book_value_per_share,
                                      r.shareholders_equity,
                                      Some(r.number_of_shares))

\* C22: in every reachable state, every stored record R has the YoY columns
\* that the record P stored now for the same company and the year before
\* gives: for each amount M with P.M not zero the rounded percent change of
\* R.M against P.M, and all six unset when there is no such record.
C22_StoredYoYCurrent ==
    \A r \in store :
        LET p == Rows(store, r.company_id, YearBefore(r.fiscal_year)) IN
        /\ \A q \in p : \A m \in DOMAIN YoYColumn :
               q[m] # 0 => r[YoYColumn[m]] = Some(RoundedPercent(r[m], q[m]))
        /\ \A q \in p :
               (~IsNull(r.book_value) /\ ~IsNull(q.book_value)
                /\ Val(q.book_value) # 0) =>
                   r.book_value_yoy_change =
                       Some(RoundedPercent(Val(r.book_value), Val(q.book_value)))
        /\ p = {} => \A f \in YoYFields : IsNull(r[f])

\* The rows of the table st whose key is not (c, y).
OtherRows(st, c, y) == { x \in st : ~(x.company_id = c /\ x.fiscal_year = y) }

\* C23: in every reachable state, a submit, an update or a delete of key
\* (c, Y) that succeeds leaves every row of another company or another
\* fiscal_year exactly as it was, its stored YoY columns included, and adds
\* no such row.
C23_OtherRecordsUntouched ==
    /\ \A r \in SubmitRequests :
           LET o == SubmitRun(companies, store, nextId, r[1], r[2]) IN
           o.status \in 200..299 =>
               OtherRows(o.store, r[1], r[2].fiscal_year) =
                   OtherRows(store, r[1], r[2].fiscal_year)
    /\ \A k \in Keys :
           /\ \A fd \in UpdateInputs :
                  LET o == UpdateRun(store, nextId, k[1], k[2], fd) IN
                  o.status \in 200..299 =>
                      OtherRows(o.store, k[1], k[2]) = OtherRows(store, k[1], k[2])
           /\ LET o == DeleteRun(store, nextId, k[1], k[2]) IN
              o.status \in 200..299 =>
                  OtherRows(o.store, k[1], k[2]) = OtherRows(store, k[1], k[2])

\* The last request committed was a delete, and the record of "1901" of
\* company 1 still stores a revenue change though the company has no record
\* of "1900" any more.
C23_Witness ==
    /\ last.op = "delete"
    /\ Rows(store, 1, Y1900) = {}
    /\ \E x \in Rows(store, 1, Y1901) : ~IsNull(x.revenue_yoy_change)

\* Session s has an update in flight, past its lookup, whose row is no
\* longer in the table.
UpdateOfDeletedRow(s) ==
    /\ sess[s].op = "update"
    /\ \/ /\ sess[s].pc = "commit"
          /\ \A x \in store : x.id # Val(sess[s].staged).loaded.id
       \/ /\ sess[s].pc = "refresh"
          /\ \A x \in store : x.id # sess[s].id

\* Session s has answered an update with 500 and the other session a delete
\* with 204, each as its latest request.
UpdateLostToDelete(s) ==
    /\ sess[s].pc = "done" /\ sess[s].op = "update" /\ sess[s].status = 500
    /\ \E t \in Sessions \ {s} :
           /\ sess[t].pc = "done" /\ sess[t].op = "delete"
           /\ sess[t].status = 204

\* C24: an update whose row was deleted after its lookup changes nothing
\* when it goes on: its commit and its refresh leave the table as it is and
\* it answers 500; and when an update has so ended and the delete of the
\* other session is that session's latest request, the key has no record.
C24_UpdateNeverRecreates ==
    /\ [](\A s \in Sessions :
              UpdateLostToDelete(s) => Rows(store, RaceKey[1], RaceKey[2]) = {})
    /\ [][\A s \in Sessions :
              (UpdateOfDeletedRow(s) /\ sess'[s] # sess[s]) =>
                  /\ store' = store
                  /\ sess'[s].pc \in {"refresh", "done"}
                  /\ sess'[s].pc = "done" => sess'[s].status = 500]_vars

\* One session has answered its update with 500, the other its delete with
\* 204, and the key has no record.
C24_Witness ==
    /\ \E s \in Sessions : UpdateLostToDelete(s)
    /\ Rows(store, RaceKey[1], RaceKey[2]) = {}

\* C25: in every snapshot of the dashboard of every company, each of the
\* six flat YoY fields equals the entry of the snapshot's yoy mapping for
\* the same amount, also when that entry was recomputed at read time.
C25_FlatEqualsMapping ==
    \A c \in KnownCompanies : \A list \in QueryAll(store, c) :
        LET m == MetricsOf(c, list) IN
        \A i \in 1..Len(m) : \A k \in DOMAIN YoYKeys :
            m[i][YoYKeys[k][1]] = m[i].yoy[k]

===========================================================================
